---- MODULE Spec2Model ----
(***************************************************************************)
(* Model of scraping/scrape_main.py: a three-level asyncio crawl           *)
(* (artist -> albums -> songs) over one shared aiohttp session.            *)
(*                                                                         *)
(* Every coroutine is a task of the single-threaded event loop.  One       *)
(* action of the model is one step of a task: the code the task runs       *)
(* between two suspension points (await of the network, of a sleep, of a   *)
(* file operation, of a gather).  The done-callback asyncio.gather         *)
(* installs on a child runs as part of the child's last step.              *)
(***************************************************************************)
EXTENDS Integers, Sequences, FiniteSets, TLC

VARIABLES site, args, doomed, session, artist, album, song, dirs, files, opened, faults, exit

vars == <<site, args, doomed, session, artist, album, song, dirs, files, opened, faults, exit>>

(***************************************************************************)
(* Bounds of the model.                                                    *)
(***************************************************************************)
\* network and disk faults the environment injects in one run
MaxFaults == 2

\* backoff sleeps followed for a body read that is reset forever
MaxBackoffs == 2

(***************************************************************************)
(* Errors.  An error is its class and, for OS errors, its errno.           *)
(***************************************************************************)
NoErr == [cls |-> "none", errno |-> 0]

ClientOSError(n) == [cls |-> "ClientOSError", errno |-> n]

ServerDisconnectedError == [cls |-> "ServerDisconnectedError", errno |-> 0]

\* session.get on a closed ClientSession
SessionClosedError == [cls |-> "RuntimeError", errno |-> 0]

\* attribute access on the None that BeautifulSoup's find returns
AttributeError == [cls |-> "AttributeError", errno |-> 0]

\* makedirs / open / write failing
WriteOSError == [cls |-> "OSError", errno |-> 28]

\* a request or a read on a connection its closed session has dropped
ConnectionClosedError == [cls |-> "ClientConnectionError", errno |-> 0]

\* the connection reset the except clause of fetch is written for
ECONNRESET == ClientOSError(54)

\* what the network can raise while a request is issued or a body is read
NetErrors == {ECONNRESET, ClientOSError(104), ServerDisconnectedError}

RECURSIVE Digits(_)
\* the decimal digits of n, as str() prints them
Digits(n) ==
    LET d == <<"0", "1", "2", "3", "4", "5", "6", "7", "8", "9">>[(n % 10) + 1]
    IN  IF n < 10 THEN <<d>> ELSE Append(Digits(n \div 10), d)

\* str(err): "[Errno <n>] <strerror>" for an OSError, a message otherwise
ErrStr(e) ==
    IF e.cls \in {"ClientOSError", "OSError"}
    THEN <<"[", "Errno", " ">> \o Digits(e.errno) \o <<"]", " ", "strerror">>
    ELSE <<"message">>

\* sub in s, for sequences of characters
Contains(sub, s) ==
    \E i \in 0..(Len(s) - Len(sub)) :
        \A j \in 1..Len(sub) : s[i + j] = sub[j]

\* the except clause of fetch and its test  '54' in str(err)
IsConnectionResetAnyOSError(e) == e.cls = "ClientOSError"

IsConnectionReset(e) ==
    /\ e.cls = "ClientOSError"
    /\ Contains(<<"5", "4">>, ErrStr(e))

\* the fixed delay of asyncio.sleep(5)
BackoffDelay == 5

(***************************************************************************)
(* The site: what each URL serves.  URLs, hrefs and paths are sequences    *)
(* of their '/'-separated segments.                                        *)
(***************************************************************************)
Host == "lyrics.com"

ArtistId == "The-Sisters-Of-Mercy"

OutputRoot == <<"data", "The-Sisters-Of-Mercy">>

\* a page the parser finds nothing in
BlankPage == [kind |-> "blank"]

SongRowLinked(name, href) == [strong |-> TRUE, anchor |-> TRUE, name |-> name, href |-> href]

ArtistRow(name, href) == [anchor |-> TRUE, name |-> name, href |-> href]

TheArtistPage ==
    [kind |-> "artist",
     rows |-> << ArtistRow("Floodland", <<"album", "1", "floodland-1">>),
                 ArtistRow("Vision Thing", <<"album", "2", "vision-thing-2">>) >>]

AlbumPages ==
    ( "floodland-1" :>
        [kind |-> "album",
         rows |-> << SongRowLinked("Dominion", <<"lyric", "1", "Dominion">>),
                     SongRowLinked("Lucretia", <<"lyric", "2", "Lucretia">>) >>] )
    @@
    ( "vision-thing-2" :>
        [kind |-> "album",
         rows |-> << SongRowLinked("Ribbons", <<"lyric", "3", "Ribbons">>) >>] )

SongFragments ==
    { <<"lyric", "1", "Dominion">>, <<"lyric", "2", "Lucretia">>, <<"lyric", "3", "Ribbons">> }

\* lyric bodies, as the sequence of their words
LyricOf(fragment) ==
    CASE fragment[3] = "Dominion" -> <<"Dominion", "reigns">>
      [] fragment[3] = "Lucretia" -> <<"Lucretia", "my", "reflection">>
      [] OTHER -> <<"Ribbons">>

\* the song pages; the ones in broken lack <pre id="lyric-body-text">
SongPages(broken) ==
    [f \in SongFragments |->
        [kind |-> "song", pre |-> f \notin broken, lyric |-> LyricOf(f)]]

SiteWith(broken) ==
    [artist |-> (ArtistId :> TheArtistPage), albums |-> AlbumPages, songs |-> SongPages(broken)]

Sites == { SiteWith(broken) : broken \in { b \in SUBSET SongFragments : Cardinality(b) <= 1 } }

(***************************************************************************)
(* Sites whose listings have rows without a link and repeated names,       *)
(* crawled as artist "X" into the output root "out".                       *)
(***************************************************************************)
\* a row without <strong>: a song that has no lyrics page
SongRowPlain(name) == [strong |-> FALSE, anchor |-> FALSE, name |-> name, href |-> <<>>]

\* a row whose <strong> holds no <a>
SongRowUnlinked(name) == [strong |-> TRUE, anchor |-> FALSE, name |-> name, href |-> <<>>]

\* an album div whose <h3> holds no <a>
ArtistRowUnlinked(name) == [anchor |-> FALSE, name |-> name, href |-> <<>>]

PageArgs == [artist |-> "X", output |-> <<"out">>]

PageSongs ==
    ( <<"lyric", "7", "S">> :> [kind |-> "song", pre |-> TRUE, lyric |-> <<"S", "seven">>] )
    @@ ( <<"lyric", "8", "S">> :> [kind |-> "song", pre |-> TRUE, lyric |-> <<"S", "eight">>] )
    @@ ( <<"lyric", "9", "U">> :> [kind |-> "song", pre |-> TRUE, lyric |-> <<"U">>] )

PageSite(artistRows, albums) ==
    [artist |-> ("X" :> [kind |-> "artist", rows |-> artistRows]),
     albums |-> albums, songs |-> PageSongs]

AlbumPage(rows) == [kind |-> "album", rows |-> rows]

\* the listing of album "Y Z" has a row without a link between two linked rows
SkipSite ==
    PageSite(<< ArtistRow("Y Z", <<"album", "9", "y-z-9">>) >>,
             "y-z-9" :> AlbumPage(<< SongRowLinked("S", <<"lyric", "7", "S">>),
                                     SongRowPlain("T"),
                                     SongRowLinked("U", <<"lyric", "9", "U">>) >>))

\* the artist page lists "Y Z" twice and the listing of the second lists "S" twice
RepeatSite ==
    PageSite(<< ArtistRow("Y Z", <<"album", "9", "y-z-9">>),
                ArtistRow("Y Z", <<"album", "10", "y-z-10">>) >>,
             ( "y-z-9" :> AlbumPage(<< SongRowLinked("U", <<"lyric", "9", "U">>) >>) )
             @@
             ( "y-z-10" :> AlbumPage(<< SongRowLinked("S", <<"lyric", "7", "S">>),
                                        SongRowLinked("S", <<"lyric", "8", "S">>),
                                        SongRowLinked("U", <<"lyric", "9", "U">>) >>) ))

\* the listing of album "Y Z" has a row whose <strong> has no anchor
UnlinkedSongSite ==
    PageSite(<< ArtistRow("Y Z", <<"album", "9", "y-z-9">>) >>,
             "y-z-9" :> AlbumPage(<< SongRowLinked("S", <<"lyric", "7", "S">>),
                                     SongRowUnlinked("T") >>))

\* the artist page has an album div without a link before the div of "Y Z"
UnlinkedAlbumSite ==
    PageSite(<< ArtistRowUnlinked("W"), ArtistRow("Y Z", <<"album", "9", "y-z-9">>) >>,
             "y-z-9" :> AlbumPage(<< SongRowLinked("S", <<"lyric", "7", "S">>) >>))

PageSites == {SkipSite, RepeatSite, UnlinkedSongSite, UnlinkedAlbumSite}

\* the URL whose body read may be reset forever
DoomedUrl == <<Host, "lyric", "7", "S">>

\* the body the site serves for a URL
Body(s, url) ==
    CASE Len(url) = 3 /\ url[2] = "artist" /\ url[3] \in DOMAIN s.artist -> s.artist[url[3]]
      [] Len(url) = 3 /\ url[2] = "album" /\ url[3] \in DOMAIN s.albums -> s.albums[url[3]]
      [] Len(url) > 1 /\ Tail(url) \in DOMAIN s.songs -> s.songs[Tail(url)]
      [] OTHER -> BlankPage

(***************************************************************************)
(* Page extraction.  A parser returns [ok, value]; ok = FALSE is the       *)
(* AttributeError of an attribute access on None.                          *)
(***************************************************************************)
EmptyFn == [x \in {} |-> x]

RECURSIVE SongRowsFirstWins(_, _)
SongRowsFirstWins(rows, urls) ==
    IF rows = <<>> THEN [ok |-> TRUE, value |-> urls]
    ELSE LET row == Head(rows)
         IN  IF row.strong
             THEN IF row.anchor
                  THEN SongRowsFirstWins(Tail(rows),
                                [n \in DOMAIN urls \cup {row.name} |->
                                    IF n \in DOMAIN urls THEN urls[n] ELSE row.href])
                  ELSE [ok |-> FALSE, value |-> urls]
             ELSE SongRowsFirstWins(Tail(rows), urls)

RECURSIVE SongRowsPartial(_, _)
SongRowsPartial(rows, urls) ==
    IF rows = <<>> THEN [ok |-> TRUE, value |-> urls]
    ELSE LET row == Head(rows)
         IN  IF row.strong
             THEN IF row.anchor
                  THEN SongRowsPartial(Tail(rows),
                                [n \in DOMAIN urls \cup {row.name} |->
                                    IF n = row.name THEN row.href ELSE urls[n]])
                  ELSE [ok |-> TRUE, value |-> urls]
             ELSE SongRowsPartial(Tail(rows), urls)

RECURSIVE SongRowsNoSkip(_, _)
SongRowsNoSkip(rows, urls) ==
    IF rows = <<>> THEN [ok |-> TRUE, value |-> urls]
    ELSE LET row == Head(rows)
         IN  IF row.strong /\ row.anchor
             THEN SongRowsNoSkip(Tail(rows),
                                 [n \in DOMAIN urls \cup {row.name} |->
                                    IF n = row.name THEN row.href ELSE urls[n]])
             ELSE [ok |-> FALSE, value |-> urls]

RECURSIVE SongRows(_, _)
\* the for loop of get_lyrics_com_songs_for_album over the rows left
SongRows(rows, urls) ==
    IF rows = <<>> THEN [ok |-> TRUE, value |-> urls]
    ELSE LET row == Head(rows)
         IN  IF row.strong
             THEN IF row.anchor
                  THEN SongRows(Tail(rows),
                                [n \in DOMAIN urls \cup {row.name} |->
                                    IF n = row.name THEN row.href ELSE urls[n]])
                  ELSE [ok |-> FALSE, value |-> urls]
             ELSE SongRows(Tail(rows), urls)

\* the parsing part of get_lyrics_com_songs_for_album
SongsForAlbum(page) ==
    IF page.kind # "album" THEN [ok |-> FALSE, value |-> EmptyFn]
    ELSE SongRows(page.rows, EmptyFn)

\* href.split('/')[-1]
LastSegment(href) == IF href = <<>> THEN "" ELSE href[Len(href)]

RECURSIVE AlbumRows(_, _)
\* the for loop of get_lyrics_com_albums_for_artist over the divs left
AlbumRows(rows, albums) ==
    IF rows = <<>> THEN [ok |-> TRUE, value |-> albums]
    ELSE LET div == Head(rows)
         IN  IF div.anchor
             THEN AlbumRows(Tail(rows),
                            [n \in DOMAIN albums \cup {div.name} |->
                                IF n = div.name THEN LastSegment(div.href) ELSE albums[n]])
             ELSE [ok |-> FALSE, value |-> albums]

\* the parsing part of get_lyrics_com_albums_for_artist
AlbumsForArtist(page) ==
    IF page.kind # "artist" THEN [ok |-> FALSE, value |-> EmptyFn]
    ELSE AlbumRows(page.rows, EmptyFn)

LyricTextOrEmpty(page) ==
    IF page.kind = "song" /\ page.pre
    THEN [ok |-> TRUE, value |-> page.lyric]
    ELSE [ok |-> TRUE, value |-> <<>>]

\* page.find('pre', {'id': 'lyric-body-text'}).get_text()
LyricText(page) ==
    IF page.kind = "song" /\ page.pre
    THEN [ok |-> TRUE, value |-> page.lyric]
    ELSE [ok |-> FALSE, value |-> <<>>]

(***************************************************************************)
(* fetch.  The state of one call: where it is suspended (pc), the calls of  *)
(* session.get it made (gets), whether it holds the response of the async  *)
(* with ("open") or none, the sleeps it made and their total delay, what it     *)
(* returned or raised; and, of its environment, the last outcome the network gave it   *)
(* (last) and how often the body read was reset (resets).                  *)
(***************************************************************************)
Ok == [ok |-> TRUE, err |-> NoErr]

Failure(e) == [ok |-> FALSE, err |-> e]

NoFetch ==
    [pc |-> "idle", url |-> <<>>, gets |-> 0, resets |-> 0, sleeps |-> 0, slept |-> 0,
     last |-> NoErr, err |-> NoErr, text |-> BlankPage, response |-> "none"]

\* async with session.get(url): the request is issued, or the closed session refuses
fetch_enter(url, sess) ==
    IF sess = "open"
    THEN [NoFetch EXCEPT !.pc = "get", !.url = url, !.gets = 1]
    ELSE [NoFetch EXCEPT !.pc = "raised", !.url = url, !.gets = 1,
                         !.err = SessionClosedError]

\* the request completes: the response is in hand, or the error leaves fetch
fetch_get(f, o) ==
    IF o.ok THEN [f EXCEPT !.pc = "read", !.last = o.err, !.response = "open"]
    ELSE [f EXCEPT !.pc = "raised", !.last = o.err, !.err = o.err]

fetch_text_no_backoff(f, o, body) ==
    LET g == [f EXCEPT !.last = o.err,
                       !.resets = IF o.err = ECONNRESET THEN @ + 1 ELSE @]
    IN  IF o.ok THEN [g EXCEPT !.pc = "returned", !.text = body]
        ELSE IF IsConnectionReset(o.err) THEN g
             ELSE [g EXCEPT !.pc = "raised", !.err = o.err]

\* one turn of the while loop: await response.text() and the except clause
fetch_text(f, o, body) ==
    LET g == [f EXCEPT !.last = o.err,
                       !.resets = IF o.err = ECONNRESET THEN @ + 1 ELSE @]
    IN  IF o.ok THEN [g EXCEPT !.pc = "returned", !.text = body, !.response = "none"]
        ELSE IF IsConnectionReset(o.err)
             THEN [g EXCEPT !.pc = "sleep", !.sleeps = @ + 1, !.slept = @ + BackoffDelay]
             ELSE [g EXCEPT !.pc = "raised", !.err = o.err, !.response = "none"]

fetch_wake_new_request(f) == [f EXCEPT !.pc = "get", !.gets = @ + 1, !.response = "none"]

\* asyncio.sleep(5) is over: continue
fetch_wake(f) == [f EXCEPT !.pc = "read"]

(***************************************************************************)
(* asyncio.gather over the awaitables, return_exceptions at its default:    *)
(* the future the parent awaits, and the callback each child runs when it  *)
(* ends.                                                                   *)
(***************************************************************************)
NoGather == [state |-> "none", err |-> NoErr]

Finished(pc) == pc \in {"done", "failed"}

\* the future gather returns for the children it is given
gather(children) ==
    IF children = {} THEN [state |-> "result", err |-> NoErr]
    ELSE [state |-> "pending", err |-> NoErr]

gather_return_exceptions(outer, child, allFinished) ==
    IF outer.state # "pending" THEN outer
    ELSE IF allFinished THEN [state |-> "result", err |-> NoErr]
    ELSE outer

\* a child ended: the first exception ends the wait at once, the last result ends it
gather_done_callback(outer, child, allFinished) ==
    IF outer.state # "pending" THEN outer
    ELSE IF child.pc = "failed" THEN [state |-> "exception", err |-> child.err]
    ELSE IF allFinished THEN [state |-> "result", err |-> NoErr]
    ELSE outer

(***************************************************************************)
(* The environment: outcomes of a network or a disk operation.             *)
(***************************************************************************)
NetOutcomes ==
    {Ok} \cup { Failure(e) : e \in IF faults < MaxFaults THEN NetErrors ELSE {} }
         \cup (IF session = "closed" THEN {Failure(ConnectionClosedError)} ELSE {})

DiskOutcomes ==
    {Ok} \cup (IF faults < MaxFaults THEN {Failure(WriteOSError)} ELSE {})

Injected(o) == IF o.err \in NetErrors \cup {WriteOSError} THEN 1 ELSE 0

\* outcomes of response.text() for the fetch f: a URL in doomed has its body
\* read reset every time
ReadOutcomes(f) ==
    IF f.url \in doomed
    THEN IF f.sleeps < MaxBackoffs THEN {Failure(ECONNRESET)} ELSE {}
    ELSE NetOutcomes

InjectedAt(f, o) == IF f.url \in doomed THEN 0 ELSE Injected(o)

\* the strict prefixes of a text: what a write that failed may leave short of it
Prefixes(text) == { SubSeq(text, 1, n) : n \in 0..(Len(text) - 1) }

(***************************************************************************)
(* Tasks.                                                                  *)
(***************************************************************************)
NewSong(directory, song_name, song_fragment) ==
    [pc |-> "ready", directory |-> directory, song_name |-> song_name,
     song_fragment |-> song_fragment, f |-> NoFetch, text |-> <<>>, err |-> NoErr]

NewAlbumSlugDir(slug, outputdir) ==
    [pc |-> "ready", album |-> slug,
     outputdir |-> Append(SubSeq(outputdir, 1, Len(outputdir) - 1), slug),
     f |-> NoFetch, outer |-> NoGather, err |-> NoErr]

NewAlbum(slug, outputdir) ==
    [pc |-> "ready", album |-> slug, outputdir |-> outputdir, f |-> NoFetch,
     outer |-> NoGather, err |-> NoErr]

SongPathWithoutName(s) == Append(s.directory, ".txt")

\* os.path.join(directory, song_name + '.txt')
SongPath(s) == Append(s.directory, s.song_name \o ".txt")

SongsOf(a) == { k \in DOMAIN song : k[1] = a }

\* how often a path has been opened for writing
TimesOpened(path) == IF path \in DOMAIN opened THEN opened[path] ELSE 0

RunningUnlessAsleep ==
    /\ exit = "running"
    /\ artist.f.pc # "sleep"
    /\ \A a \in DOMAIN album : album[a].f.pc # "sleep"
    /\ \A k \in DOMAIN song : song[k].f.pc # "sleep"

\* the loop is running: run_until_complete has not returned
Running == exit = "running"

\* main(artist, site, output) with the defaults of its options
DefaultArgs == [artist |-> ArtistId, output |-> OutputRoot]

Init ==
    /\ site \in Sites
    /\ args = DefaultArgs
    /\ doomed = {}
    /\ session = "none"
    /\ artist = [pc |-> "ready", f |-> NoFetch, outer |-> NoGather, err |-> NoErr]
    /\ album = EmptyFn
    /\ song = EmptyFn
    /\ dirs = {}
    /\ files = EmptyFn
    /\ opened = EmptyFn
    /\ faults = 0
    /\ exit = "running"

(***************************************************************************)
(* Song tasks: get_and_write_lyrics_com_song, get_lyrics_com_song, write.  *)
(***************************************************************************)
\* the song task k takes a step to r; if that ends it, its album's gather hears of it
SongStep(k, r) ==
    /\ song' = [song EXCEPT ![k] = r]
    /\ album' =
        IF Finished(r.pc)
        THEN [album EXCEPT ![k[1]].outer =
                gather_done_callback(@, r,
                    \A j \in SongsOf(k[1]) \ {k} : Finished(song[j].pc))]
        ELSE album

SongRaise(s, f, e) == [s EXCEPT !.pc = "failed", !.f = f, !.err = e]

\* the task starts: up to the request fetch issues on the session
SongStart(k) ==
    /\ Running
    /\ song[k].pc = "ready"
    /\ LET f2 == fetch_enter(<<Host>> \o song[k].song_fragment, session)
       IN  IF f2.pc = "raised"
           THEN SongStep(k, SongRaise(song[k], f2, f2.err))
           ELSE SongStep(k, [song[k] EXCEPT !.pc = "fetch", !.f = f2])
    /\ UNCHANGED <<site, args, doomed, session, artist, dirs, files, opened, faults, exit>>

\* the request completes
SongGet(k) ==
    /\ Running
    /\ song[k].pc = "fetch" /\ song[k].f.pc = "get"
    /\ \E o \in NetOutcomes :
        LET f2 == fetch_get(song[k].f, o)
        IN  /\ IF f2.pc = "raised"
               THEN SongStep(k, SongRaise(song[k], f2, f2.err))
               ELSE SongStep(k, [song[k] EXCEPT !.f = f2])
            /\ faults' = faults + Injected(o)
    /\ UNCHANGED <<site, args, doomed, session, artist, dirs, files, opened, exit>>

\* response.text() completes; on its text the lyric is extracted, the directory
\* made and the file's opening awaited
SongRead(k) ==
    /\ Running
    /\ song[k].pc = "fetch" /\ song[k].f.pc = "read"
    /\ \E o \in ReadOutcomes(song[k].f), d \in DiskOutcomes :
        LET s == song[k]
            f2 == fetch_text(s.f, o, Body(site, s.f.url))
            lyric == LyricText(f2.text)
            written == f2.pc = "returned" /\ lyric.ok
        IN  /\ (d.ok \/ (written /\ faults + InjectedAt(s.f, o) < MaxFaults))
            /\ CASE f2.pc = "raised" -> SongStep(k, SongRaise(s, f2, f2.err))
                 [] f2.pc \notin {"raised", "returned"} -> SongStep(k, [s EXCEPT !.f = f2])
                 [] f2.pc = "returned" /\ ~lyric.ok ->
                        SongStep(k, SongRaise(s, f2, AttributeError))
                 [] written /\ ~d.ok -> SongStep(k, SongRaise(s, f2, d.err))
                 [] OTHER ->
                        SongStep(k, [s EXCEPT !.pc = "open", !.f = f2, !.text = lyric.value])
            /\ dirs' = IF written /\ d.ok THEN dirs \cup {s.directory} ELSE dirs
            /\ faults' = faults + InjectedAt(s.f, o) + Injected(d)
    /\ UNCHANGED <<site, args, doomed, session, artist, files, opened, exit>>

\* the backoff sleep is over
SongWake(k) ==
    /\ Running
    /\ song[k].pc = "fetch" /\ song[k].f.pc = "sleep"
    /\ SongStep(k, [song[k] EXCEPT !.f = fetch_wake(@)])
    /\ UNCHANGED <<site, args, doomed, session, artist, dirs, files, opened, faults, exit>>

\* aiofiles.open(path, 'w') completes: the file exists and is empty
SongOpen(k) ==
    /\ Running
    /\ song[k].pc = "open"
    /\ \E d \in DiskOutcomes :
        /\ IF d.ok
           THEN /\ SongStep(k, [song[k] EXCEPT !.pc = "write"])
                /\ files' = (SongPath(song[k]) :> <<>>) @@ files
                /\ opened' = (SongPath(song[k]) :> TimesOpened(SongPath(song[k])) + 1)
                                @@ opened
           ELSE /\ SongStep(k, SongRaise(song[k], song[k].f, d.err))
                /\ UNCHANGED <<files, opened>>
        /\ faults' = faults + Injected(d)
    /\ UNCHANGED <<site, args, doomed, session, artist, dirs, exit>>

\* outfile.write(contents) and the close of the file complete
SongWrite(k) ==
    /\ Running
    /\ song[k].pc = "write"
    /\ \E d \in DiskOutcomes :
        /\ IF d.ok
           THEN /\ SongStep(k, [song[k] EXCEPT !.pc = "done"])
                /\ files' = (SongPath(song[k]) :> song[k].text) @@ files
           ELSE /\ SongStep(k, SongRaise(song[k], song[k].f, d.err))
                /\ \E left \in Prefixes(song[k].text) \cup {song[k].text} :
                        files' = (SongPath(song[k]) :> left) @@ files
        /\ faults' = faults + Injected(d)
    /\ UNCHANGED <<site, args, doomed, session, artist, dirs, opened, exit>>

(***************************************************************************)
(* Album tasks: get_lyrics_com_album, get_lyrics_com_songs_for_album.      *)
(***************************************************************************)
\* the album task a takes a step to r; if that ends it, the artist's gather hears of it
AlbumStep(a, r) ==
    /\ album' = [album EXCEPT ![a] = r]
    /\ artist' =
        IF Finished(r.pc)
        THEN [artist EXCEPT !.outer =
                gather_done_callback(@, r,
                    \A b \in DOMAIN album \ {a} : Finished(album[b].pc))]
        ELSE artist

AlbumRaise(r, f, e) == [r EXCEPT !.pc = "failed", !.f = f, !.err = e]

\* the task starts: up to the request for the album's listing
AlbumStart(a) ==
    /\ Running
    /\ album[a].pc = "ready"
    /\ LET f2 == fetch_enter(<<Host, "album", album[a].album>>, session)
       IN  IF f2.pc = "raised"
           THEN AlbumStep(a, AlbumRaise(album[a], f2, f2.err))
           ELSE AlbumStep(a, [album[a] EXCEPT !.pc = "fetch", !.f = f2])
    /\ UNCHANGED <<site, args, doomed, session, song, dirs, files, opened, faults, exit>>

AlbumGet(a) ==
    /\ Running
    /\ album[a].pc = "fetch" /\ album[a].f.pc = "get"
    /\ \E o \in NetOutcomes :
        LET f2 == fetch_get(album[a].f, o)
        IN  /\ IF f2.pc = "raised"
               THEN AlbumStep(a, AlbumRaise(album[a], f2, f2.err))
               ELSE AlbumStep(a, [album[a] EXCEPT !.f = f2])
            /\ faults' = faults + Injected(o)
    /\ UNCHANGED <<site, args, doomed, session, song, dirs, files, opened, exit>>

\* the listing's text arrives: the song list is parsed, one task per entry is
\* handed to gather, and the album awaits them
AlbumRead(a) ==
    /\ Running
    /\ album[a].pc = "fetch" /\ album[a].f.pc = "read"
    /\ \E o \in ReadOutcomes(album[a].f) :
        LET r == album[a]
            f2 == fetch_text(r.f, o, Body(site, r.f.url))
            song_urls == SongsForAlbum(f2.text)
            launched == { <<a, name>> : name \in DOMAIN song_urls.value }
            outer == gather(launched)
        IN  /\ CASE f2.pc = "raised" ->
                        AlbumStep(a, AlbumRaise(r, f2, f2.err)) /\ song' = song
                 [] f2.pc \notin {"raised", "returned"} ->
                        AlbumStep(a, [r EXCEPT !.f = f2]) /\ song' = song
                 [] f2.pc = "returned" /\ ~song_urls.ok ->
                        AlbumStep(a, AlbumRaise(r, f2, AttributeError)) /\ song' = song
                 [] OTHER ->
                        /\ AlbumStep(a, [r EXCEPT !.f = f2, !.outer = outer,
                                !.pc = IF outer.state = "result" THEN "done" ELSE "gather"])
                        /\ song' = [k \in launched |->
                                        NewSong(r.outputdir, k[2], song_urls.value[k[2]])]
                                   @@ song
            /\ faults' = faults + InjectedAt(r.f, o)
    /\ UNCHANGED <<site, args, doomed, session, dirs, files, opened, exit>>

AlbumWake(a) ==
    /\ Running
    /\ album[a].pc = "fetch" /\ album[a].f.pc = "sleep"
    /\ AlbumStep(a, [album[a] EXCEPT !.f = fetch_wake(@)])
    /\ UNCHANGED <<site, args, doomed, session, song, dirs, files, opened, faults, exit>>

\* await asyncio.gather(...) is over: the album returns, or raises what gather raised
AlbumResume(a) ==
    /\ Running
    /\ album[a].pc = "gather" /\ album[a].outer.state \in {"result", "exception"}
    /\ AlbumStep(a, [album[a] EXCEPT
                        !.pc = IF album[a].outer.state = "result" THEN "done" ELSE "failed",
                        !.err = album[a].outer.err])
    /\ UNCHANGED <<site, args, doomed, session, song, dirs, files, opened, faults, exit>>

(***************************************************************************)
(* The artist task: get_lyrics_com_artist,                                 *)
(* get_lyrics_com_albums_for_artist.  Leaving the async with block, by     *)
(* return or by exception, closes the session.                             *)
(***************************************************************************)
ArtistRaise(f, e) == [artist EXCEPT !.pc = "failed", !.f = f, !.err = e]

\* the session is opened and the artist page requested
ArtistStart ==
    /\ Running
    /\ artist.pc = "ready"
    /\ session' = "open"
    /\ artist' = [artist EXCEPT !.pc = "fetch",
                                !.f = fetch_enter(<<Host, "artist", args.artist>>, "open")]
    /\ UNCHANGED <<site, args, doomed, album, song, dirs, files, opened, faults, exit>>

ArtistGet ==
    /\ Running
    /\ artist.pc = "fetch" /\ artist.f.pc = "get"
    /\ \E o \in NetOutcomes :
        LET f2 == fetch_get(artist.f, o)
        IN  /\ IF f2.pc = "raised"
               THEN artist' = ArtistRaise(f2, f2.err) /\ session' = "closed"
               ELSE artist' = [artist EXCEPT !.f = f2] /\ session' = session
            /\ faults' = faults + Injected(o)
    /\ UNCHANGED <<site, args, doomed, album, song, dirs, files, opened, exit>>

\* the artist page's text arrives: the album list is parsed, one task per entry
\* is handed to gather, and the artist awaits them
ArtistRead ==
    /\ Running
    /\ artist.pc = "fetch" /\ artist.f.pc = "read"
    /\ \E o \in ReadOutcomes(artist.f) :
        LET f2 == fetch_text(artist.f, o, Body(site, artist.f.url))
            albums == AlbumsForArtist(f2.text)
            outer == gather(DOMAIN albums.value)
        IN  /\ CASE f2.pc = "raised" ->
                        /\ artist' = ArtistRaise(f2, f2.err)
                        /\ session' = "closed" /\ album' = album
                 [] f2.pc \notin {"raised", "returned"} ->
                        /\ artist' = [artist EXCEPT !.f = f2]
                        /\ session' = session /\ album' = album
                 [] f2.pc = "returned" /\ ~albums.ok ->
                        /\ artist' = ArtistRaise(f2, AttributeError)
                        /\ session' = "closed" /\ album' = album
                 [] OTHER ->
                        /\ artist' = [artist EXCEPT !.f = f2, !.outer = outer,
                                !.pc = IF outer.state = "result" THEN "done" ELSE "gather"]
                        /\ session' = IF outer.state = "result" THEN "closed" ELSE session
                        /\ album' = [name \in DOMAIN albums.value |->
                                        NewAlbum(albums.value[name],
                                                 Append(args.output, name))]
            /\ faults' = faults + InjectedAt(artist.f, o)
    /\ UNCHANGED <<site, args, doomed, song, dirs, files, opened, exit>>

ArtistWake ==
    /\ Running
    /\ artist.pc = "fetch" /\ artist.f.pc = "sleep"
    /\ artist' = [artist EXCEPT !.f = fetch_wake(@)]
    /\ UNCHANGED <<site, args, doomed, session, album, song, dirs, files, opened, faults, exit>>

\* await asyncio.gather(...) is over: the session is closed on the way out
ArtistResume ==
    /\ Running
    /\ artist.pc = "gather" /\ artist.outer.state \in {"result", "exception"}
    /\ artist' = [artist EXCEPT
                    !.pc = IF artist.outer.state = "result" THEN "done" ELSE "failed",
                    !.err = artist.outer.err]
    /\ session' = "closed"
    /\ UNCHANGED <<site, args, doomed, album, song, dirs, files, opened, faults, exit>>

(***************************************************************************)
(* main: loop.run_until_complete returns or raises when the artist task    *)
(* has ended; the loop runs no task after that.                            *)
(***************************************************************************)
Exit ==
    /\ Running
    /\ Finished(artist.pc)
    /\ exit' = IF artist.pc = "done" THEN "ok" ELSE "failed"
    /\ UNCHANGED <<site, args, doomed, session, artist, album, song, dirs, files, opened, faults>>

Next ==
    \/ ArtistStart
    \/ ArtistGet
    \/ ArtistRead
    \/ ArtistWake
    \/ ArtistResume
    \/ \E a \in DOMAIN album : AlbumStart(a)
    \/ \E a \in DOMAIN album : AlbumGet(a)
    \/ \E a \in DOMAIN album : AlbumRead(a)
    \/ \E a \in DOMAIN album : AlbumWake(a)
    \/ \E a \in DOMAIN album : AlbumResume(a)
    \/ \E k \in DOMAIN song : SongStart(k)
    \/ \E k \in DOMAIN song : SongGet(k)
    \/ \E k \in DOMAIN song : SongRead(k)
    \/ \E k \in DOMAIN song : SongWake(k)
    \/ \E k \in DOMAIN song : SongOpen(k)
    \/ \E k \in DOMAIN song : SongWrite(k)
    \/ Exit

Spec == Init /\ [][Next]_vars

\* the crawl of a site of PageSites; on SkipSite the body read of one song
\* may be reset forever
InitPages ==
    /\ \/ site \in PageSites /\ doomed = {}
       \/ site = SkipSite /\ doomed = {DoomedUrl}
    /\ args = PageArgs
    /\ session = "none"
    /\ artist = [pc |-> "ready", f |-> NoFetch, outer |-> NoGather, err |-> NoErr]
    /\ album = EmptyFn
    /\ song = EmptyFn
    /\ dirs = {}
    /\ files = EmptyFn
    /\ opened = EmptyFn
    /\ faults = 0
    /\ exit = "running"

SpecPages == InitPages /\ [][Next]_vars

\* the loop runs a task that can take a step, and the network and the disk answer
FairPages == SpecPages /\ WF_vars(Next)

(***************************************************************************)
(* Properties.                                                             *)
(***************************************************************************)
AllFetches ==
    {artist.f} \cup { album[a].f : a \in DOMAIN album } \cup { song[k].f : k \in DOMAIN song }

AllTasksFinished ==
    /\ \A a \in DOMAIN album : Finished(album[a].pc)
    /\ \A k \in DOMAIN song : Finished(song[k].pc)

\* the album has handed its song tasks to gather
Launched(a) == album[a].outer.state # "none"

\* the lyric the site holds for the song task k
SiteLyric(k) == site.songs[song[k].song_fragment].lyric

\* C1: whenever an album that launched its song tasks has failed, every song
\* task of that album has finished (completed or failed).
C1_AlbumFailsAfterAllSongs ==
    \A a \in DOMAIN album :
        (album[a].pc = "failed" /\ Launched(a)) =>
            \A k \in SongsOf(a) : Finished(song[k].pc)

\* C2: whenever the artist task has returned or raised, and whenever the run
\* has ended, every album task and every song task has finished.
C2_ArtistReturnsAfterAllTasks ==
    (Finished(artist.pc) \/ exit # "running") => AllTasksFinished

\* C3: whenever the session is closed, every album task and every song task
\* has finished: none is in flight and none has yet to issue its fetch.
C3_SessionClosedAfterAllTasks ==
    session = "closed" => AllTasksFinished

\* C4: whenever an album has failed because one of its songs failed, every
\* sibling song that has not itself failed has its file on disk, holding its
\* lyric.
C4_SiblingFilesOnDiskAtFailure ==
    \A a \in DOMAIN album :
        (album[a].pc = "failed" /\ album[a].outer.state = "exception") =>
            \A k \in SongsOf(a) :
                song[k].pc # "failed" =>
                    /\ SongPath(song[k]) \in DOMAIN files
                    /\ files[SongPath(song[k])] = SiteLyric(k)

\* the (songName, songFragment) entries of the listing the site serves for album a
ListedSongs(a) == SongsForAlbum(site.albums[album[a].album]).value

\* the files of a directory
FilesIn(directory) ==
    { p \in DOMAIN files : SubSeq(p, 1, Len(p) - 1) = directory }

\* C5: when an album task has returned, it launched exactly one song task per
\* entry of the parsed song list, and its directory holds exactly the files
\* <songName>.txt of the listed songs, each holding that song's lyric text.
C5_FanOutComplete ==
    \A a \in DOMAIN album :
        album[a].pc = "done" =>
            /\ SongsOf(a) = { <<a, name>> : name \in DOMAIN ListedSongs(a) }
            /\ \A k \in SongsOf(a) : song[k].song_fragment = ListedSongs(a)[k[2]]
            /\ FilesIn(album[a].outputdir) =
                    { Append(album[a].outputdir, name \o ".txt") :
                        name \in DOMAIN ListedSongs(a) }
            /\ \A name \in DOMAIN ListedSongs(a) :
                    files[Append(album[a].outputdir, name \o ".txt")] =
                        site.songs[ListedSongs(a)[name]].lyric

\* an album of two songs has returned with both files written
C5_Witness ==
    \E a \in DOMAIN album :
        /\ album[a].pc = "done"
        /\ Cardinality(SongsOf(a)) = 2
        /\ Cardinality(FilesIn(album[a].outputdir)) = 2

\* C6: a fetch whose body read was reset N times and then succeeded has
\* returned the text the site serves for its URL after exactly N sleeps of
\* delay 5 each.
C6_RetryConvergence ==
    \A f \in AllFetches :
        f.pc = "returned" =>
            /\ f.text = Body(site, f.url)
            /\ f.sleeps = f.resets
            /\ f.slept = 5 * f.resets

\* a fetch has returned after two resets
C6_Witness ==
    \E f \in AllFetches : f.pc = "returned" /\ f.resets = 2 /\ f.sleeps = 2

\* C7: a fetch whose last outcome was an error other than the connection
\* reset has failed with that very error, having slept only for the resets
\* before it and having issued no second GET.
C7_NonTransientPassthrough ==
    \A f \in AllFetches :
        (f.last # NoErr /\ f.last # ECONNRESET) =>
            /\ f.pc = "raised"
            /\ f.err = f.last
            /\ f.sleeps = f.resets
            /\ f.gets = 1

\* a body read raised a ClientOSError that is no connection reset, and fetch failed
C7_Witness ==
    \E f \in AllFetches :
        f.last = ClientOSError(104) /\ f.pc = "raised" /\ f.sleeps = 0

\* C8: no fetch fails with the connection-reset error, and so no task does.
C8_ResetNeverSurfaces ==
    /\ \A f \in AllFetches : f.pc = "raised" => f.err # ECONNRESET
    /\ \A k \in DOMAIN song : song[k].err # ECONNRESET
    /\ \A a \in DOMAIN album : album[a].err # ECONNRESET
    /\ artist.err # ECONNRESET

\* C9 as claimed: a song's output path never holds anything but the complete
\* extracted lyric text.
C9_NeverCorrupt ==
    \A k \in DOMAIN song :
        SongPath(song[k]) \in DOMAIN files => files[SongPath(song[k])] = SiteLyric(k)

\* C9 as amended: a song's file exists only once its text has been fetched and
\* extracted, a song whose fetch or extraction failed has no file, no file is
\* opened for writing twice, a finished song's file holds the complete text,
\* and any other content is a prefix of the text, left by a write that is not
\* over or that failed.
C9_AtMostOnceWrite ==
    \A k \in DOMAIN song :
        LET path == SongPath(song[k])
        IN  /\ path \in DOMAIN files =>
                /\ song[k].f.pc = "returned"
                /\ site.songs[song[k].song_fragment].pre
                /\ song[k].text = SiteLyric(k)
                /\ files[path] \in Prefixes(SiteLyric(k)) \cup {SiteLyric(k)}
                /\ files[path] # SiteLyric(k) => song[k].pc \in {"write", "failed"}
            /\ (song[k].pc = "failed" /\ song[k].err.cls # "OSError") =>
                    path \notin DOMAIN files
            /\ song[k].pc = "done" => (path \in DOMAIN files /\ files[path] = SiteLyric(k))
            /\ TimesOpened(path) <= 1

\* a write failed and left a file short of the text; another song's file is complete
C9_Witness ==
    \E k, j \in DOMAIN song :
        /\ song[k].pc = "failed" /\ song[k].err = WriteOSError
        /\ SongPath(song[k]) \in DOMAIN files
        /\ files[SongPath(song[k])] # SiteLyric(k)
        /\ song[j].pc = "done" /\ files[SongPath(song[j])] = SiteLyric(j)

\* the error e reached the artist task from its own step, from an album's own
\* step, or from a song through its album
Propagated(e) ==
    \/ artist.outer.state = "none"
    \/ \E a \in DOMAIN album :
        /\ album[a].pc = "failed" /\ album[a].err = e
        /\ \/ ~Launched(a)
           \/ \E k \in SongsOf(a) : song[k].pc = "failed" /\ song[k].err = e

AnyFailure ==
    \/ artist.pc = "failed"
    \/ \E a \in DOMAIN album : album[a].pc = "failed"
    \/ \E k \in DOMAIN song : song[k].pc = "failed"

\* C10: a run that has ended has failed if and only if an error of a song, an
\* album or the artist-page step reached the top level, and has succeeded only
\* with the artist's wait over and every album and song task done without failure.
C10_ExitOutcome ==
    /\ exit = "failed" <=>
            (exit # "running" /\ artist.err # NoErr /\ Propagated(artist.err))
    /\ exit # "running" => (exit = "failed" <=> AnyFailure)
    /\ exit = "ok" =>
            /\ artist.pc = "done" /\ artist.outer.state = "result"
            /\ \A a \in DOMAIN album : album[a].pc = "done"
            /\ \A k \in DOMAIN song : song[k].pc = "done"

\* the run has failed with the error of a song
C10_Witness ==
    /\ exit = "failed"
    /\ \E k \in DOMAIN song : song[k].pc = "failed" /\ song[k].err = artist.err

\* the listing page the site serves for the album task a
ListingOf(a) == Body(site, <<Host, "album", album[a].album>>)

\* every row of the listing that has a <strong> has its link in it
WellFormed(page) ==
    page.kind = "album" /\ \A i \in 1..Len(page.rows) : page.rows[i].strong => page.rows[i].anchor

\* the names of the rows that have a link, and of those that have none
LinkedNames(page) == { page.rows[i].name : i \in { j \in 1..Len(page.rows) : page.rows[j].strong } }

PlainNames(page) == { page.rows[i].name : i \in { j \in 1..Len(page.rows) : ~page.rows[j].strong } }

C12_PathWithArtist ==
    (<<"Y Z", "S">> \in DOMAIN song /\ song[<<"Y Z", "S">>].pc = "done") =>
        <<"out", "X", "Y Z", "S.txt">> \in DOMAIN files

\* C12 as amended: crawling artist "X" into "out", the file of song "S" of
\* album "Y Z" is out/Y Z/S.txt, the names taken literally; the artist is no
\* part of any path written, and every file written is
\* <output>/<album name>/<song name>.txt of a song task.
C12_PathConstruction ==
    /\ (<<"Y Z", "S">> \in DOMAIN song /\ song[<<"Y Z", "S">>].pc = "done") =>
            /\ <<"out", "Y Z", "S.txt">> \in DOMAIN files
            /\ <<"out", "X", "Y Z", "S.txt">> \notin DOMAIN files
    /\ \A p \in DOMAIN files \cup dirs : \A i \in 1..Len(p) : p[i] # args.artist
    /\ DOMAIN files \subseteq { args.output \o <<k[1], k[2] \o ".txt">> : k \in DOMAIN song }
    /\ dirs \subseteq { Append(args.output, a) : a \in DOMAIN album }

\* song "S" of album "Y Z" of artist "X" is written
C12_Witness ==
    /\ args = PageArgs
    /\ <<"Y Z", "S">> \in DOMAIN song /\ song[<<"Y Z", "S">>].pc = "done"
    /\ <<"out", "Y Z", "S.txt">> \in DOMAIN files

\* the artist page the site serves
ArtistPageOf == Body(site, <<Host, "artist", args.artist>>)

\* C13: a song task exists, and so starts, only when its album's listing has
\* been fetched and parsed to its end, the song being a linked row of it; an
\* album task exists only when the artist page has been fetched and parsed to
\* its end, the album being a row of it.
C13_LaunchOrdering ==
    /\ \A k \in DOMAIN song :
        /\ k[1] \in DOMAIN album
        /\ album[k[1]].f.pc = "returned"
        /\ album[k[1]].f.text = ListingOf(k[1])
        /\ WellFormed(ListingOf(k[1]))
        /\ \E i \in 1..Len(ListingOf(k[1]).rows) :
                /\ ListingOf(k[1]).rows[i].strong
                /\ ListingOf(k[1]).rows[i].name = k[2]
                /\ ListingOf(k[1]).rows[i].href = song[k].song_fragment
    /\ \A a \in DOMAIN album :
        /\ artist.f.pc = "returned"
        /\ artist.f.text = ArtistPageOf
        /\ ArtistPageOf.kind = "artist"
        /\ \A i \in 1..Len(ArtistPageOf.rows) : ArtistPageOf.rows[i].anchor
        /\ \E i \in 1..Len(ArtistPageOf.rows) :
                /\ ArtistPageOf.rows[i].name = a
                /\ LastSegment(ArtistPageOf.rows[i].href) = album[a].album

\* a song task has issued its request, its album's listing and the artist page read
C13_Witness ==
    \E k \in DOMAIN song :
        /\ song[k].f.gets = 1 /\ song[k].f.pc = "get"
        /\ album[k[1]].f.pc = "returned" /\ album[k[1]].pc = "gather"
        /\ artist.f.pc = "returned" /\ artist.pc = "gather"

\* the names of the album rows of the artist page that have a link
LinkedAlbums(page) == { page.rows[i].name : i \in { j \in 1..Len(page.rows) : page.rows[j].anchor } }

\* C14: once the artist page is read, an album row without a link is skipped:
\* the artist task has not failed on it, and album tasks are launched for the
\* rows that have a link.
C14_AlbumRowSkip ==
    (artist.f.pc = "returned" /\ ArtistPageOf.kind = "artist") =>
        /\ ~(artist.pc = "failed" /\ artist.outer.state = "none")
        /\ DOMAIN album = LinkedAlbums(ArtistPageOf)

\* some fetch is in its backoff sleep
Sleeping == \E f \in AllFetches : f.pc = "sleep"

\* the body read of f is one the model follows further
ReadFollowed(f) == f.url \notin doomed \/ f.sleeps < MaxBackoffs

\* C15: while the loop runs and some fetch sleeps in its backoff, every other
\* task that has a step to take can take it; and at all times each fetch has
\* slept exactly once, for 5, per reset of its own body read.
C15_BackoffPerRequest ==
    /\ (exit = "running" /\ Sleeping) =>
        /\ \A k \in DOMAIN song :
            /\ song[k].pc = "ready" => ENABLED SongStart(k)
            /\ (song[k].pc = "fetch" /\ song[k].f.pc = "get") => ENABLED SongGet(k)
            /\ (song[k].pc = "fetch" /\ song[k].f.pc = "read" /\ ReadFollowed(song[k].f)) =>
                    ENABLED SongRead(k)
            /\ song[k].pc = "open" => ENABLED SongOpen(k)
            /\ song[k].pc = "write" => ENABLED SongWrite(k)
        /\ \A a \in DOMAIN album :
            /\ album[a].pc = "ready" => ENABLED AlbumStart(a)
            /\ (album[a].pc = "fetch" /\ album[a].f.pc = "get") => ENABLED AlbumGet(a)
            /\ (album[a].pc = "fetch" /\ album[a].f.pc = "read") => ENABLED AlbumRead(a)
            /\ (album[a].pc = "gather" /\ album[a].outer.state # "pending") =>
                    ENABLED AlbumResume(a)
    /\ \A f \in AllFetches : f.sleeps = f.resets /\ f.slept = 5 * f.resets

\* one song's fetch sleeps in its backoff while another song, which never
\* slept, has its file written
C15_Witness ==
    \E k, j \in DOMAIN song :
        /\ exit = "running"
        /\ song[k].f.pc = "sleep"
        /\ song[j].pc = "done" /\ song[j].f.sleeps = 0
        /\ SongPath(song[j]) \in DOMAIN files

\* C16, second half: once a body read that is reset forever has begun, its
\* fetch has neither returned nor failed and the run has not ended.
C16_ResetForeverNeverEnds ==
    \A f \in AllFetches :
        (f.url \in doomed /\ f.resets > 0) =>
            /\ f.pc \notin {"returned", "raised"}
            /\ exit = "running"

\* C16, first half: with no body read reset forever, and so finitely many
\* transient errors, the run ends.
C16_FiniteResetsTerminate == (doomed = {}) => <>(exit # "running")

\* a fetch whose body read is reset forever never returns and never fails in the read
C16_DoomedFetchNeverReturns ==
    \A f \in AllFetches : (f.url \in doomed /\ f.resets > 0) => f.pc \in {"read", "sleep"}

RECURSIVE SumGets(_, _)
\* the calls of session.get made by the tasks ids of the task table tasks
SumGets(tasks, ids) ==
    IF ids = {} THEN 0
    ELSE LET t == CHOOSE x \in ids : TRUE
         IN  tasks[t].f.gets + SumGets(tasks, ids \ {t})

TotalGets == artist.f.gets + SumGets(album, DOMAIN album) + SumGets(song, DOMAIN song)

\* C17: a fetch that has been called has issued one GET on the session,
\* however often its body read was reset; a fetch that has returned or raised
\* holds no response; and a run that succeeded issued 1 + albums + songs GETs.
C17_OneGetPerFetch ==
    /\ \A f \in AllFetches :
        /\ f.pc # "idle" => f.gets = 1
        /\ f.pc \in {"returned", "raised"} => f.response # "open"
        /\ f.pc \in {"read", "sleep"} => f.response = "open"
    /\ exit = "ok" =>
            TotalGets = 1 + Cardinality(DOMAIN album) + Cardinality(DOMAIN song)

\* a run has succeeded although a body read was reset twice
C17_Witness ==
    /\ exit = "ok"
    /\ \E f \in AllFetches : f.resets = 2 /\ f.pc = "returned" /\ f.gets = 1
    /\ Cardinality(DOMAIN song) = 2

\* the index of the last row of rows that has the name and satisfies linked
LastRow(rows, name, linked(_)) ==
    CHOOSE i \in 1..Len(rows) :
        /\ rows[i].name = name /\ linked(rows[i])
        /\ \A j \in (i + 1)..Len(rows) : ~(rows[j].name = name /\ linked(rows[j]))

HasStrong(row) == row.strong

HasAnchor(row) == row.anchor

\* C18: no two song tasks have the same output path and no two album tasks the
\* same directory, no path is opened for writing twice, and the task of a name
\* that a listing repeats uses the link of the last row of that name.
C18_NoWriteWriteRace ==
    /\ \A k, j \in DOMAIN song : k # j => SongPath(song[k]) # SongPath(song[j])
    /\ \A a, b \in DOMAIN album : a # b => album[a].outputdir # album[b].outputdir
    /\ \A p \in DOMAIN files : TimesOpened(p) = 1
    /\ \A p \in DOMAIN opened :
            Cardinality({ k \in DOMAIN song : SongPath(song[k]) = p /\ song[k].pc \in
                            {"write", "done", "failed"} }) = 1
    /\ \A k \in DOMAIN song :
            song[k].song_fragment =
                ListingOf(k[1]).rows[LastRow(ListingOf(k[1]).rows, k[2], HasStrong)].href
    /\ \A a \in DOMAIN album :
            album[a].album =
                LastSegment(ArtistPageOf.rows[LastRow(ArtistPageOf.rows, a, HasAnchor)].href)

\* the artist page lists "Y Z" twice and its listing lists "S" twice: the one
\* task of "S" has written the song of the last row, in the one album directory
C18_Witness ==
    /\ site = RepeatSite
    /\ DOMAIN album = {"Y Z"} /\ album["Y Z"].album = "y-z-10"
    /\ DOMAIN song = { <<"Y Z", "S">>, <<"Y Z", "U">> }
    /\ song[<<"Y Z", "S">>].pc = "done"
    /\ files[<<"out", "Y Z", "S.txt">>] = <<"S", "eight">>
    /\ opened[<<"out", "Y Z", "S.txt">>] = 1

====
